---- MODULE Spec2Model ----
(***************************************************************************)
(* Model of brkga_mp_ipr/types.py: the string-parseable enumerations       *)
(* (ParsingEnum and its five subclasses), the PathRelinkingResult flag     *)
(* and its bitwise composition, and the two parameter records BrkgaParams  *)
(* and ExternalControlParams.                                              *)
(*                                                                         *)
(* Text is modelled as a sequence of one-character strings, so that        *)
(* upper-casing and comparison are computed character by character.        *)
(***************************************************************************)
EXTENDS Integers, Sequences, FiniteSets, TLC

VARIABLES
    acc,      \* the path-relinking rollup: a PathRelinkingResult member
    hist,     \* the members combined into acc so far, in arrival order
    lhs,      \* left operand of the last `|`
    rhs,      \* right operand of the last `|`
    pc,       \* where a resolution stands: idle, token, resolved, again
    how,      \* how the token in hand was made
    token,    \* the object handed to the enumeration's constructor
    origin,   \* the member the token was written from (NoMember if none)
    cls,      \* the name of the enumeration the token is resolved against
    outcome,  \* what the constructor call produced
    second,   \* what resolving the produced member once more produced
    bp,       \* the attributes of the BrkgaParams instance
    bpOp,     \* the last operation on it: none, new, set
    bpWrites, \* how many fields were written since it was made
    call,     \* the arguments of the ExternalControlParams(...) call
    ecp,      \* what that call produced
    read      \* the last attribute read from the instance

flagVars == <<acc, hist, lhs, rhs>>
enumVars == <<pc, how, token, origin, cls, outcome, second>>
bpVars == <<bp, bpOp, bpWrites>>
ecVars == <<call, ecp, read>>
vars == <<flagVars, enumVars, bpVars, ecVars>>

-----------------------------------------------------------------------------
(* Bounds *)

\* Longest sequence of results combined into one rollup.
MaxCombine == 4

\* Largest integer handed to an enumeration's constructor.
MaxTag == 7

\* Largest number written to a numeric field of BrkgaParams.
MaxNumber == 2

\* Most fields written to one BrkgaParams instance.
MaxWrites == 2

-----------------------------------------------------------------------------
(* Enumeration members *)

\* An enumeration member: its class, its name and its value.
Member(c, n, v) == [cls |-> c, name |-> n, value |-> v]

\* The members of an enumeration, as a set (the sequence is declaration order).
Members(enum) == {enum[i] : i \in 1..Len(enum)}

-----------------------------------------------------------------------------
(* Text *)

UpperCase ==
    <<"A","B","C","D","E","F","G","H","I","J","K","L","M",
      "N","O","P","Q","R","S","T","U","V","W","X","Y","Z">>

LowerCase ==
    <<"a","b","c","d","e","f","g","h","i","j","k","l","m",
      "n","o","p","q","r","s","t","u","v","w","x","y","z">>

DigitChars == <<"0","1","2","3","4","5","6","7","8","9">>

\* The character U+0131, LATIN SMALL LETTER DOTLESS I: not a casing of any
\* ASCII letter, yet str.upper() maps it to "I".
DotlessI == "U+0131"

Chars ==
    {UpperCase[i] : i \in 1..26} \cup {LowerCase[i] : i \in 1..26}
        \cup {DigitChars[i] : i \in 1..10} \cup {"-", "_", ".", DotlessI}

\* str.upper(), one character.
UpperChar ==
    [ch \in Chars |->
        IF \E i \in 1..26 : LowerCase[i] = ch
        THEN UpperCase[CHOOSE i \in 1..26 : LowerCase[i] = ch]
        ELSE IF ch = DotlessI THEN "I"
        ELSE ch]

\* str.lower(), one character.
LowerChar ==
    [ch \in Chars |->
        IF \E i \in 1..26 : UpperCase[i] = ch
        THEN LowerCase[CHOOSE i \in 1..26 : UpperCase[i] = ch]
        ELSE ch]

\* str.upper() and str.lower().
Upper(s) == [i \in 1..Len(s) |-> UpperChar[s[i]]]
Lower(s) == [i \in 1..Len(s) |-> LowerChar[s[i]]]

\* The positions of s that hold a cased ASCII letter.
LetterPositions(s) == {i \in 1..Len(s) : UpperChar[s[i]] # LowerChar[s[i]]}

\* s with the case of the letters at the positions in mask swapped.
SwapCase(s, mask) ==
    [i \in 1..Len(s) |->
        IF i \in mask
        THEN (IF s[i] = UpperChar[s[i]] THEN LowerChar[s[i]] ELSE UpperChar[s[i]])
        ELSE s[i]]

\* str(n) of a natural number: its decimal digits.
RECURSIVE Digits(_)
Digits(n) ==
    IF n < 10 THEN <<DigitChars[n + 1]>>
    ELSE Digits(n \div 10) \o <<DigitChars[(n % 10) + 1]>>

-----------------------------------------------------------------------------
(* The strategy enumerations *)

Sense ==
    << Member("Sense", <<"M","I","N","I","M","I","Z","E">>, 0),
       Member("Sense", <<"M","A","X","I","M","I","Z","E">>, 1) >>

BiasFunction ==
    << Member("BiasFunction", <<"C","O","N","S","T","A","N","T">>, 0),
       Member("BiasFunction", <<"C","U","B","I","C">>, 1),
       Member("BiasFunction", <<"E","X","P","O","N","E","N","T","I","A","L">>, 2),
       Member("BiasFunction", <<"L","I","N","E","A","R">>, 3),
       Member("BiasFunction", <<"L","O","G","I","N","V","E","R","S","E">>, 4),
       Member("BiasFunction", <<"Q","U","A","D","R","A","T","I","C">>, 5),
       Member("BiasFunction", <<"C","U","S","T","O","M">>, 6) >>

PathRelinkingType ==
    << Member("PathRelinkingType", <<"D","I","R","E","C","T">>, 0),
       Member("PathRelinkingType", <<"P","E","R","M","U","T","A","T","I","O","N">>, 1) >>

PathRelinkingSelection ==
    << Member("PathRelinkingSelection", <<"B","E","S","T","S","O","L","U","T","I","O","N">>, 0),
       Member("PathRelinkingSelection", <<"R","A","N","D","O","M","E","L","I","T","E">>, 1) >>

ShakingType ==
    << Member("ShakingType", <<"C","H","A","N","G","E">>, 0),
       Member("ShakingType", <<"S","W","A","P">>, 1) >>

\* The subclasses of ParsingEnum, by class name.
ParsingEnum ==
    [Sense |-> Sense, BiasFunction |-> BiasFunction,
     PathRelinkingType |-> PathRelinkingType,
     PathRelinkingSelection |-> PathRelinkingSelection,
     ShakingType |-> ShakingType]

ParsingEnumClasses == DOMAIN ParsingEnum

ParsingEnumMembers == UNION {Members(ParsingEnum[c]) : c \in ParsingEnumClasses}

-----------------------------------------------------------------------------
(* Objects handed to and produced by an enumeration's constructor *)

TextToken(s) == [kind |-> "str", chars |-> s]
IntToken(n) == [kind |-> "int", value |-> n]
MemberToken(m) == [kind |-> "member", member |-> m]
NoToken == [kind |-> "none"]

NoMember == Member("NoneType", <<>>, 0)

Returned(m) == [kind |-> "member", member |-> m]
ReturnedNone == [kind |-> "None"]
Raised(e) == [kind |-> "raise", exc |-> e]
NoOutcome == [kind |-> "none"]

\* A __str__ that writes the member's value.
StrWritesValue(m) == Digits(m.value)

\* ParsingEnum.__str__: the member's name.
Str(m) == m.name

\* str(name) of the object handed to _missing_.
StrOf(t) ==
    CASE t.kind = "str" -> t.chars
      [] t.kind = "int" -> Digits(t.value)
      [] t.kind = "member" -> Str(t.member)

\* The loop `for member in cls: if ...: return member`, given the indices of
\* the members that pass the test: the first of them is returned, and None
\* when the loop runs out.
FirstOf(enum, hits) ==
    IF hits = {} THEN ReturnedNone
    ELSE Returned(enum[CHOOSE i \in hits : \A j \in hits : i <= j])

\* A _missing_ that compares the names as they are written.
MissingCaseSensitive(enum, name) ==
    FirstOf(enum, {i \in 1..Len(enum) : enum[i].name = StrOf(name)})

\* ParsingEnum._missing_(cls, name): the first member whose upper-cased name
\* is the upper-cased str(name); falling off the loop returns None.
Missing(enum, name) ==
    FirstOf(enum, {i \in 1..Len(enum) : Upper(enum[i].name) = Upper(StrOf(name))})

\* A constructor that looks every object up by value alone.
EnumCallByValueOnly(enum, t) ==
    IF t.kind = "int" /\ \E m \in Members(enum) : m.value = t.value
    THEN Returned(CHOOSE m \in Members(enum) : m.value = t.value)
    ELSE Raised("ValueError")

\* A constructor that hands back whatever _missing_ returned.
EnumCallPassesNone(enum, t) ==
    IF t.kind = "member" /\ t.member \in Members(enum)
    THEN Returned(t.member)
    ELSE IF t.kind = "int" /\ \E m \in Members(enum) : m.value = t.value
    THEN Returned(CHOOSE m \in Members(enum) : m.value = t.value)
    ELSE Missing(enum, t)

\* cls(value) of a ParsingEnum subclass (class ParsingEnum(Enum)): a member
\* of cls is returned as it is, a value of a member selects that member,
\* anything else goes to _missing_, and a None from it raises ValueError.
EnumCall(enum, t) ==
    IF t.kind = "member" /\ t.member \in Members(enum)
    THEN Returned(t.member)
    ELSE IF t.kind = "int" /\ \E m \in Members(enum) : m.value = t.value
    THEN Returned(CHOOSE m \in Members(enum) : m.value = t.value)
    ELSE LET r == Missing(enum, t)
         IN  IF r = ReturnedNone THEN Raised("ValueError") ELSE r

-----------------------------------------------------------------------------
(* Resolving a token against a strategy enumeration *)

\* Text that names no member of any enumeration.
Literals ==
    { <<"n","o","t","-","a","-","r","e","a","l","-","n","a","m","e">>,
      <<>>,
      <<"0">>,
      <<"S","e","n","s","e",".","M","I","N","I","M","I","Z","E">> }

\* Characters a misspelling puts in place of a letter.
Slips == {DotlessI, "-", "x"}

\* str(member): a member is written out.
Write(v) ==
    /\ pc = "idle"
    /\ token' = TextToken(Str(v))
    /\ origin' = v
    /\ how' = "written"
    /\ pc' = "token"
    /\ UNCHANGED <<cls, outcome, second, flagVars, bpVars, ecVars>>

\* Free text arrives.
Type(s) ==
    /\ pc = "idle"
    /\ token' = TextToken(s)
    /\ origin' = NoMember
    /\ how' = "typed"
    /\ pc' = "token"
    /\ UNCHANGED <<cls, outcome, second, flagVars, bpVars, ecVars>>

\* The text is put in another casing: upper, lower or mixed.
Recase ==
    /\ pc = "token"
    /\ how \in {"written", "typed"}
    /\ \E mask \in (SUBSET LetterPositions(token.chars)) \ {{}} :
            token' = TextToken(SwapCase(token.chars, mask))
    /\ how' = IF how = "written" THEN "recased" ELSE "typed-recased"
    /\ UNCHANGED <<pc, origin, cls, outcome, second, flagVars, bpVars, ecVars>>

\* One character of a written name is replaced by another.
Misspell ==
    /\ pc = "token"
    /\ how = "written"
    /\ \E p \in 1..Len(token.chars), ch \in Slips :
            token' = TextToken([token.chars EXCEPT ![p] = ch])
    /\ how' = "misspelt"
    /\ UNCHANGED <<pc, origin, cls, outcome, second, flagVars, bpVars, ecVars>>

\* A written name loses its last character.
Truncate ==
    /\ pc = "token"
    /\ how = "written"
    /\ token' = TextToken(SubSeq(token.chars, 1, Len(token.chars) - 1))
    /\ how' = "misspelt"
    /\ UNCHANGED <<pc, origin, cls, outcome, second, flagVars, bpVars, ecVars>>

\* An integer arrives.
PassTag(n) ==
    /\ pc = "idle"
    /\ token' = IntToken(n)
    /\ origin' = NoMember
    /\ how' = "tag"
    /\ pc' = "token"
    /\ UNCHANGED <<cls, outcome, second, flagVars, bpVars, ecVars>>

\* A member of a strategy enumeration arrives.
PassMember(v) ==
    /\ pc = "idle"
    /\ token' = MemberToken(v)
    /\ origin' = v
    /\ how' = "member"
    /\ pc' = "token"
    /\ UNCHANGED <<cls, outcome, second, flagVars, bpVars, ecVars>>

\* c(token)
Resolve(c) ==
    /\ pc = "token"
    /\ cls' = c
    /\ outcome' = EnumCall(ParsingEnum[c], token)
    /\ pc' = "resolved"
    /\ UNCHANGED <<how, token, origin, second, flagVars, bpVars, ecVars>>

\* cls(cls(token)): the member produced is resolved once more.
ResolveAgain ==
    /\ pc = "resolved"
    /\ outcome.kind = "member"
    /\ second' = EnumCall(ParsingEnum[cls], MemberToken(outcome.member))
    /\ pc' = "again"
    /\ UNCHANGED <<how, token, origin, cls, outcome, flagVars, bpVars, ecVars>>

-----------------------------------------------------------------------------
(* PathRelinkingResult(Flag) *)

\* A plain sequential numbering of the four results.
PathRelinkingResultSequential ==
    << Member("PathRelinkingResult", <<"T","O","O","_","H","O","M","O","G","E","N","E","O","U","S">>, 0),
       Member("PathRelinkingResult", <<"N","O","_","I","M","P","R","O","V","E","M","E","N","T">>, 1),
       Member("PathRelinkingResult", <<"E","L","I","T","E","_","I","M","P","R","O","V","E","M","E","N","T">>, 2),
       Member("PathRelinkingResult", <<"B","E","S","T","_","I","M","P","R","O","V","E","M","E","N","T">>, 3) >>

PathRelinkingResult ==
    << Member("PathRelinkingResult", <<"T","O","O","_","H","O","M","O","G","E","N","E","O","U","S">>, 0),
       Member("PathRelinkingResult", <<"N","O","_","I","M","P","R","O","V","E","M","E","N","T">>, 1),
       Member("PathRelinkingResult", <<"E","L","I","T","E","_","I","M","P","R","O","V","E","M","E","N","T">>, 3),
       Member("PathRelinkingResult", <<"B","E","S","T","_","I","M","P","R","O","V","E","M","E","N","T">>, 7) >>

TOO_HOMOGENEOUS == PathRelinkingResult[1]
NO_IMPROVEMENT == PathRelinkingResult[2]
ELITE_IMPROVEMENT == PathRelinkingResult[3]
BEST_IMPROVEMENT == PathRelinkingResult[4]

\* Bitwise AND of two naturals.
RECURSIVE BitAnd(_, _)
BitAnd(a, b) ==
    IF a = 0 \/ b = 0 THEN 0
    ELSE (IF a % 2 = 1 /\ b % 2 = 1 THEN 1 ELSE 0) + 2 * BitAnd(a \div 2, b \div 2)

\* Bitwise OR of two naturals.
RECURSIVE BitOr(_, _)
BitOr(a, b) ==
    IF a = 0 THEN b
    ELSE IF b = 0 THEN a
    ELSE (IF a % 2 = 1 \/ b % 2 = 1 THEN 1 ELSE 0) + 2 * BitOr(a \div 2, b \div 2)

\* Bitwise XOR of two naturals.
RECURSIVE BitXor(_, _)
BitXor(a, b) ==
    IF a = 0 THEN b
    ELSE IF b = 0 THEN a
    ELSE (IF a % 2 # b % 2 THEN 1 ELSE 0) + 2 * BitXor(a \div 2, b \div 2)

\* PathRelinkingResult(value): the member with that value; a bit pattern
\* that no member names is a nameless composite of the flag type.
FlagCall(v) ==
    IF \E m \in Members(PathRelinkingResult) : m.value = v
    THEN CHOOSE m \in Members(PathRelinkingResult) : m.value = v
    ELSE Member("PathRelinkingResult", <<>>, v)

\* An OR that keeps its left operand.
FlagOrKeepsLeft(a, b) == FlagCall(a.value)

\* An OR that toggles bits instead of setting them.
FlagOrToggles(a, b) == FlagCall(BitXor(a.value, b.value))

\* a | b on the flag type: the member of the OR of the two bit patterns.
FlagOr(a, b) == FlagCall(BitOr(a.value, b.value))

-----------------------------------------------------------------------------
(* The rollup of path-relinking results *)

\* result |= x
Combine(x) ==
    /\ Len(hist) < MaxCombine
    /\ acc' = FlagOr(acc, x)
    /\ lhs' = acc
    /\ rhs' = x
    /\ hist' = Append(hist, x)
    /\ UNCHANGED <<enumVars, bpVars, ecVars>>

\* result = x | result
CombineReversed(x) ==
    /\ Len(hist) < MaxCombine
    /\ acc' = FlagOr(x, acc)
    /\ lhs' = x
    /\ rhs' = acc
    /\ hist' = Append(hist, x)
    /\ UNCHANGED <<enumVars, bpVars, ecVars>>

-----------------------------------------------------------------------------
(* BrkgaParams *)

\* Field values a configuration loader writes (fractions in thousandths).
NumberValues == 0..MaxNumber

\* Defaults that select the last member of each enumeration.
BrkgaParamsLastMembers ==
    [population_size |-> 0,
     elite_percentage |-> 0,
     mutants_percentage |-> 0,
     num_elite_parents |-> 0,
     total_parents |-> 0,
     bias_type |-> BiasFunction[7],
     num_independent_populations |-> 0,
     pr_number_pairs |-> 0,
     pr_minimum_distance |-> 0,
     pr_type |-> PathRelinkingType[2],
     pr_selection |-> PathRelinkingSelection[2],
     alpha_block_size |-> 0,
     pr_percentage |-> 0]

\* BrkgaParams.__init__(self): the attributes of a new instance.
BrkgaParams ==
    [population_size |-> 0,
     elite_percentage |-> 0,
     mutants_percentage |-> 0,
     num_elite_parents |-> 0,
     total_parents |-> 0,
     bias_type |-> BiasFunction[1],
     num_independent_populations |-> 0,
     pr_number_pairs |-> 0,
     pr_minimum_distance |-> 0,
     pr_type |-> PathRelinkingType[1],
     pr_selection |-> PathRelinkingSelection[1],
     alpha_block_size |-> 0,
     pr_percentage |-> 0]

\* The fields that hold a member of an enumeration, and that enumeration.
EnumFields ==
    [bias_type |-> BiasFunction,
     pr_type |-> PathRelinkingType,
     pr_selection |-> PathRelinkingSelection]

\* brkga_params = BrkgaParams()
NewBrkgaParams ==
    /\ bp' = BrkgaParams
    /\ bpOp' = "new"
    /\ bpWrites' = 0
    /\ UNCHANGED <<ecVars, enumVars, flagVars>>

\* brkga_params.<field> = <value>; nothing is validated.
SetBrkgaField ==
    /\ bpOp # "none"
    /\ bpWrites < MaxWrites
    /\ \E f \in DOMAIN bp :
         \E v \in (IF f \in DOMAIN EnumFields THEN Members(EnumFields[f]) ELSE NumberValues) :
            bp' = [bp EXCEPT ![f] = v]
    /\ bpOp' = "set"
    /\ bpWrites' = bpWrites + 1
    /\ UNCHANGED <<ecVars, enumVars, flagVars>>

-----------------------------------------------------------------------------
(* ExternalControlParams *)

\* The parameters of ExternalControlParams.__init__ after self, in order.
Parameters == <<"exchange_interval", "num_exchange_indivuduals", "reset_interval">>

\* The default of every one of them.
Default == 0

\* Argument values callers pass.
ArgValues == {0, 10, 20, 30}

\* Keyword names callers use: the parameters' names and the second one
\* spelled num_exchange_individuals.
Keywords ==
    {Parameters[i] : i \in 1..Len(Parameters)} \cup {"num_exchange_individuals"}

\* Positional arguments: up to one more than there are parameters.
ArgLists == UNION {[1..n -> ArgValues] : n \in 0..(Len(Parameters) + 1)}

\* Keyword arguments: values for some of the keyword names.
KwArgs == UNION {[names -> ArgValues] : names \in SUBSET Keywords}

Object(attrs) == [kind |-> "object", attrs |-> attrs]
NoObject == [kind |-> "none"]
NoRead == [name |-> "", result |-> [kind |-> "none"]]

\* The value parameter i is bound to by a call that Python accepts.
Bound(i, args, kwargs) ==
    IF i <= Len(args) THEN args[i]
    ELSE IF Parameters[i] \in DOMAIN kwargs THEN kwargs[Parameters[i]]
    ELSE Default

\* ExternalControlParams(*args, **kwargs): Python binds the arguments to
\* the parameters (TypeError for too many positional arguments, a keyword
\* that names no parameter, or a parameter given twice), then __init__
\* stores each parameter in the attribute of its name.
ExternalControlParams(args, kwargs) ==
    IF Len(args) > Len(Parameters) THEN Raised("TypeError")
    ELSE IF \E k \in DOMAIN kwargs : \A i \in 1..Len(Parameters) : Parameters[i] # k
    THEN Raised("TypeError")
    ELSE IF \E i \in 1..Len(args) : Parameters[i] \in DOMAIN kwargs
    THEN Raised("TypeError")
    ELSE Object([exchange_interval |-> Bound(1, args, kwargs),
                 num_exchange_indivuduals |-> Bound(2, args, kwargs),
                 reset_interval |-> Bound(3, args, kwargs)])

\* getattr(obj, name)
GetAttr(obj, name) ==
    IF name \in DOMAIN obj.attrs
    THEN [kind |-> "value", value |-> obj.attrs[name]]
    ELSE Raised("AttributeError")

\* extra_params = ExternalControlParams(...)
Construct ==
    /\ ecp = NoObject
    /\ \E args \in ArgLists, kwargs \in KwArgs :
        /\ call' = [args |-> args, kwargs |-> kwargs]
        /\ ecp' = ExternalControlParams(args, kwargs)
    /\ UNCHANGED <<read, bpVars, enumVars, flagVars>>

\* extra_params.<name>
ReadField(name) ==
    /\ ecp.kind = "object"
    /\ read = NoRead
    /\ read' = [name |-> name, result |-> GetAttr(ecp, name)]
    /\ UNCHANGED <<call, ecp, bpVars, enumVars, flagVars>>

-----------------------------------------------------------------------------
(* Specifications *)

Init ==
    /\ acc = TOO_HOMOGENEOUS
    /\ hist = <<>>
    /\ lhs = TOO_HOMOGENEOUS
    /\ rhs = TOO_HOMOGENEOUS
    /\ pc = "idle"
    /\ how = "none"
    /\ token = NoToken
    /\ origin = NoMember
    /\ cls = "Sense"
    /\ outcome = NoOutcome
    /\ second = NoOutcome
    /\ bp = <<>>
    /\ bpOp = "none"
    /\ bpWrites = 0
    /\ call = [args |-> <<>>, kwargs |-> <<>>]
    /\ ecp = NoObject
    /\ read = NoRead

NextCombine ==
    \/ \E x \in Members(PathRelinkingResult) : Combine(x)
    \/ \E x \in Members(PathRelinkingResult) : CombineReversed(x)

SpecCombine == Init /\ [][NextCombine]_vars

NextResolve ==
    \/ \E v \in ParsingEnumMembers : Write(v)
    \/ \E s \in Literals : Type(s)
    \/ Recase
    \/ Misspell
    \/ Truncate
    \/ \E n \in 0..MaxTag : PassTag(n)
    \/ \E v \in ParsingEnumMembers : PassMember(v)
    \/ \E c \in ParsingEnumClasses : Resolve(c)
    \/ ResolveAgain

SpecResolve == Init /\ [][NextResolve]_vars

NextBrkgaParams ==
    \/ NewBrkgaParams
    \/ SetBrkgaField

SpecBrkgaParams == Init /\ [][NextBrkgaParams]_vars

NextExternalControlParams ==
    \/ Construct
    \/ \E name \in Keywords : ReadField(name)

SpecExternalControlParams == Init /\ [][NextExternalControlParams]_vars

-----------------------------------------------------------------------------
(* Properties of the flag composition *)

\* The position of a result in the order
\* TOO_HOMOGENEOUS < NO_IMPROVEMENT < ELITE_IMPROVEMENT < BEST_IMPROVEMENT
\* (0 for a bit pattern that is none of the four).
Rank(m) ==
    IF \E i \in 1..Len(PathRelinkingResult) : PathRelinkingResult[i] = m
    THEN CHOOSE i \in 1..Len(PathRelinkingResult) : PathRelinkingResult[i] = m
    ELSE 0

\* The greater of two results under that order.
Stronger(a, b) == IF Rank(a) >= Rank(b) THEN a ELSE b

\* The strongest result of a sequence (TOO_HOMOGENEOUS for the empty one).
RECURSIVE Strongest(_)
Strongest(s) ==
    IF s = <<>> THEN PathRelinkingResult[1]
    ELSE Stronger(Head(s), Strongest(Tail(s)))

\* A `|` has been evaluated.
Combined == Len(hist) > 0

\* C1: for every ordered pair (a, b) of the four results, a | b is the
\* greater of a and b under the order, and the four results are encoded
\* as 0, 1, 3 and 7.
C1_CombineIsMax ==
    /\ <<TOO_HOMOGENEOUS.value, NO_IMPROVEMENT.value,
         ELITE_IMPROVEMENT.value, BEST_IMPROVEMENT.value>> = <<0, 1, 3, 7>>
    /\ Combined => acc = Stronger(lhs, rhs)

C1_Witness ==
    /\ Combined
    /\ lhs = ELITE_IMPROVEMENT
    /\ rhs = NO_IMPROVEMENT
    /\ acc = ELITE_IMPROVEMENT

\* C6: TOO_HOMOGENEOUS is a two-sided identity of `|`: with it on either
\* side, the result is the other operand.
C6_Identity ==
    Combined =>
        /\ lhs = TOO_HOMOGENEOUS => acc = rhs
        /\ rhs = TOO_HOMOGENEOUS => acc = lhs

C6_Witness ==
    /\ Combined
    /\ lhs = BEST_IMPROVEMENT
    /\ rhs = TOO_HOMOGENEOUS
    /\ acc = BEST_IMPROVEMENT

\* C7: `|` is commutative and idempotent on the four results: the result
\* of the last a | b is also that of b | a, and a | a is a.
C7_CommutativeIdempotent ==
    Combined =>
        /\ acc = FlagOr(rhs, lhs)
        /\ lhs = rhs => acc = lhs

C7_Witness ==
    /\ Combined
    /\ lhs = NO_IMPROVEMENT
    /\ rhs = BEST_IMPROVEMENT
    /\ hist = <<BEST_IMPROVEMENT, NO_IMPROVEMENT, ELITE_IMPROVEMENT, NO_IMPROVEMENT>>

\* C10: a rollup that starts at TOO_HOMOGENEOUS is, after every step, one
\* of the four named results, equals the strongest result combined so far
\* whatever the arrival order, and never decreases in the order.
C10_Rollup ==
    /\ [](/\ acc \in Members(PathRelinkingResult)
          /\ acc.value \in {0, 1, 3, 7}
          /\ acc = Strongest(hist))
    /\ [][Rank(acc') >= Rank(acc)]_vars

C10_Witness ==
    /\ hist = <<ELITE_IMPROVEMENT, BEST_IMPROVEMENT, NO_IMPROVEMENT>>
    /\ acc = BEST_IMPROVEMENT

-----------------------------------------------------------------------------
(* Properties of the resolution *)

\* A constructor call has returned or raised.
Resolved == pc \in {"resolved", "again"}

\* s is a casing (upper, lower or mixed) of the name n.
IsCasingOf(s, n) ==
    /\ Len(s) = Len(n)
    /\ \A i \in 1..Len(n) : s[i] \in {UpperChar[n[i]], LowerChar[n[i]]}

\* LookupError and its subclasses, of Python's built-in exceptions.
LookupErrorKinds == {"LookupError", "IndexError", "KeyError"}

\* C2: for each strategy enumeration and each of its names n, a token that
\* is any casing of n resolves to the member named n, which is also what n
\* itself resolves to.
C2_CaseInsensitive ==
    (Resolved /\ token.kind = "str") =>
        \A m \in Members(ParsingEnum[cls]) :
            IsCasingOf(token.chars, m.name) =>
                /\ outcome = Returned(m)
                /\ outcome = EnumCall(ParsingEnum[cls], TextToken(m.name))

C2_Witness ==
    /\ Resolved
    /\ cls = "BiasFunction"
    /\ token = TextToken(<<"E","x","p","o","n","e","n","t","i","a","l">>)
    /\ outcome = Returned(BiasFunction[3])

C8_RoundTrip ==
    /\ (pc = "token" /\ how = "written") => token = TextToken(origin.name)
    /\ (Resolved /\ how \in {"written", "recased"} /\ cls = origin.cls)
            => outcome = Returned(origin)

C8_Witness ==
    /\ Resolved
    /\ how = "recased"
    /\ origin = PathRelinkingSelection[1]
    /\ cls = "PathRelinkingSelection"
    /\ token = TextToken(<<"b","e","s","t","s","o","l","u","t","i","o","n">>)
    /\ outcome = Returned(PathRelinkingSelection[1])

\* C9: a token that is already a member of the enumeration comes back
\* unchanged, and resolving the member a resolution produced gives that
\* member again.
C9_MemberUnchanged ==
    /\ (Resolved /\ token.kind = "member" /\ token.member \in Members(ParsingEnum[cls]))
            => outcome = Returned(token.member)
    /\ pc = "again" => second = outcome

C9_Witness ==
    /\ pc = "again"
    /\ token = MemberToken(BiasFunction[7])
    /\ cls = "BiasFunction"
    /\ outcome = Returned(BiasFunction[7])
    /\ second = outcome

-----------------------------------------------------------------------------
(* Properties of the parameter records *)

NumericFields ==
    {"population_size", "elite_percentage", "mutants_percentage",
     "num_elite_parents", "total_parents", "num_independent_populations",
     "pr_number_pairs", "pr_minimum_distance", "alpha_block_size",
     "pr_percentage"}

\* C5: a default-constructed BrkgaParams has all 13 fields set, every
\* numeric field 0, bias_type CONSTANT, pr_type DIRECT and pr_selection
\* BESTSOLUTION.
C5_BrkgaParamsDefaults ==
    bpOp = "new" =>
        /\ DOMAIN bp = NumericFields \cup {"bias_type", "pr_type", "pr_selection"}
        /\ Cardinality(DOMAIN bp) = 13
        /\ \A f \in NumericFields : bp[f] = 0
        /\ bp.bias_type.name = <<"C","O","N","S","T","A","N","T">>
        /\ bp.bias_type \in Members(BiasFunction)
        /\ bp.pr_type.name = <<"D","I","R","E","C","T">>
        /\ bp.pr_type \in Members(PathRelinkingType)
        /\ bp.pr_selection.name = <<"B","E","S","T","S","O","L","U","T","I","O","N">>
        /\ bp.pr_selection \in Members(PathRelinkingSelection)

C5_Witness ==
    /\ bpOp = "new"
    /\ bp.population_size = 0
    /\ bp.pr_selection = PathRelinkingSelection[1]

\* The field names C4 gives, in parameter order.
ClaimedFields == <<"exchange_interval", "num_exchange_individuals", "reset_interval">>

\* The value C4 expects in field i: the argument supplied for it,
\* positionally or under the field's name, and 0 if none was.
Expected(i) ==
    IF i <= Len(call.args) THEN call.args[i]
    ELSE IF ClaimedFields[i] \in DOMAIN call.kwargs THEN call.kwargs[ClaimedFields[i]]
    ELSE 0

\* A call C4 covers: at most three positional arguments, keywords among
\* the three field names, no field supplied twice.
CoveredCall ==
    /\ Len(call.args) <= 3
    /\ \A k \in DOMAIN call.kwargs : \E i \in 1..3 : ClaimedFields[i] = k
    /\ \A i \in 1..Len(call.args) : ClaimedFields[i] \notin DOMAIN call.kwargs

\* C4: construction stores each argument supplied, positionally or by name,
\* in its own field and 0 in each field not supplied, the fields being
\* exchange_interval, num_exchange_individuals and reset_interval.
C4_PositionalAndNamedAgree ==
    (ecp # NoObject /\ CoveredCall) =>
        /\ ecp.kind = "object"
        /\ \A i \in 1..3 :
              read.name = ClaimedFields[i] =>
                  read.result = [kind |-> "value", value |-> Expected(i)]

\* With the second field and keyword spelled as __init__ spells them,
\* num_exchange_indivuduals, the same statement: every call Python accepts
\* stores each argument in the field of its parameter and 0 elsewhere.
StoresArgumentsAsSpelled ==
    (   /\ ecp # NoObject
        /\ Len(call.args) <= Len(Parameters)
        /\ \A k \in DOMAIN call.kwargs : \E i \in 1..Len(Parameters) : Parameters[i] = k
        /\ \A i \in 1..Len(call.args) : Parameters[i] \notin DOMAIN call.kwargs)
    => /\ ecp.kind = "object"
       /\ DOMAIN ecp.attrs = {Parameters[j] : j \in 1..Len(Parameters)}
       /\ \A i \in 1..Len(Parameters) :
            ecp.attrs[Parameters[i]] =
                IF i <= Len(call.args) THEN call.args[i]
                ELSE IF Parameters[i] \in DOMAIN call.kwargs
                     THEN call.kwargs[Parameters[i]]
                     ELSE 0

====
